---------------------------- MODULE Spec2Model ----------------------------
(***************************************************************************)
(* The excalidraw-converter workflow of src/src/mastra/env.ts: the four    *)
(* steps imageToCsv, validateCsv, csvToExcalidraw and validateExcalidraw,  *)
(* the row parser of csvToExcalidraw and the validate-repair loop of       *)
(* validateExcalidraw.                                                     *)
(*                                                                         *)
(* A text (a JavaScript string) is a sequence of one-character strings.    *)
(* A JavaScript value is a tagged record: see JNull .. JUndef below.       *)
(***************************************************************************)
EXTENDS Integers, Sequences, FiniteSets, TLC

(***************************************************************************)
(* Texts                                                                   *)
(***************************************************************************)

\* The text of a string literal, character by character.
Chars(s) == [i \in 1..Len(s) |-> SubSeq(s, i, i)]

QUOTE == "\""

BSL == "\\"
\* White space as String.prototype.trim and JSON.parse see it (the part of it
\* the modelled texts can hold).
WhiteSpace == {" ", "\t", "\r", "\n"}

Digits == {"0", "1", "2", "3", "4", "5", "6", "7", "8", "9"}

DigitVal(c) == CASE c = "0" -> 0 [] c = "1" -> 1 [] c = "2" -> 2 [] c = "3" -> 3 [] c = "4" -> 4 [] c = "5" -> 5 [] c = "6" -> 6 [] c = "7" -> 7 [] c = "8" -> 8 [] c = "9" -> 9

DigitChar(d) == <<"0", "1", "2", "3", "4", "5", "6", "7", "8", "9">>[d + 1]

RECURSIVE Pow10(_)
Pow10(n) == IF n = 0 THEN 1 ELSE 10 * Pow10(n - 1)

\* The texts xs[1] .. xs[Len(xs)] one after the other (by halves, to keep the
\* evaluation shallow).
RECURSIVE Concat(_)
Concat(xs) ==
  IF xs = <<>> THEN <<>>
  ELSE IF Len(xs) = 1 THEN xs[1]
  ELSE Concat(SubSeq(xs, 1, Len(xs) \div 2)) \o Concat(SubSeq(xs, Len(xs) \div 2 + 1, Len(xs)))

\* s.replace(/ab/g, rep) for the two-character pattern a b with a # b (so
\* that no two matches overlap).
PairAt(s, i, a, b) == i >= 1 /\ i < Len(s) /\ s[i] = a /\ s[i + 1] = b

ReplacePair(s, a, b, rep) ==
  Concat([i \in 1..Len(s) |->
            IF PairAt(s, i, a, b) THEN rep
            ELSE IF PairAt(s, i - 1, a, b) THEN <<>>
            ELSE <<s[i]>>])

\* s.trim()
Trim(s) ==
  LET inked == {i \in 1..Len(s) : s[i] \notin WhiteSpace}
  IN IF inked = {} THEN <<>>
     ELSE SubSeq(s, CHOOSE i \in inked : \A j \in inked : i <= j, CHOOSE i \in inked : \A j \in inked : i >= j)

\* s.split(sep) for a one-character sep: the pieces between the separators,
\* the empty pieces included; "".split(sep) is [""].
Split(s, sep) ==
  LET at == <<0>> \o SelectSeq([i \in 1..Len(s) |-> i], LAMBDA i : s[i] = sep) \o <<Len(s) + 1>>
  IN [k \in 1..(Len(at) - 1) |-> SubSeq(s, at[k] + 1, at[k + 1] - 1)]

\* xs.join(sep)
Join(xs, sep) == Concat([i \in 1..Len(xs) |-> IF i = 1 THEN xs[i] ELSE sep \o xs[i]])

\* The decimal digits of a natural number.
RECURSIVE NatText(_)
NatText(n) == IF n < 10 THEN <<DigitChar(n)>> ELSE Append(NatText(n \div 10), DigitChar(n % 10))

\* The value of a text of digits (0 for the empty text).
RECURSIVE DigitsVal(_)
DigitsVal(s) ==
  IF s = <<>> THEN 0 ELSE 10 * DigitsVal(SubSeq(s, 1, Len(s) - 1)) + DigitVal(s[Len(s)])

\* The index of the first character of s at or after i that is not in set
\* (Len(s) + 1 when there is none).
RECURSIVE SkipIn(_, _, _)
SkipIn(s, i, set) == IF i <= Len(s) /\ s[i] \in set THEN SkipIn(s, i + 1, set) ELSE i

\* Whether text w stands in s at index i.
MatchAt(s, i, w) == i + Len(w) - 1 <= Len(s) /\ SubSeq(s, i, i + Len(w) - 1) = w

(***************************************************************************)
(* JavaScript values                                                       *)
(***************************************************************************)

JNull == [t |-> "null"]

JUndef == [t |-> "undef"]

\* An exception that no catch has caught, standing where the value of the
\* expression that threw would stand.
Uncaught == [t |-> "throw"]

JBool(b) == [t |-> "bool", v |-> b]

\* The number m * 10^(-e), kept normal: e = 0, or the last digit of m is not 0.
\* NaN is its own value.
RECURSIVE JNum(_, _)
JNum(m, e) ==
  IF e > 0 /\ m % 10 = 0 THEN JNum(m \div 10, e - 1) ELSE [t |-> "num", m |-> m, e |-> e]

JInt(n) == [t |-> "num", m |-> n, e |-> 0]

JNaN == [t |-> "nan"]

JStr(s) == [t |-> "str", v |-> s]

JArr(xs) == [t |-> "arr", v |-> xs]

\* An object is the sequence of its own properties, in property order.
JObj(ps) == [t |-> "obj", v |-> ps]

Prop(k, v) == [k |-> k, v |-> v]

\* An integer-like property name ("0", "7", "12": an array index): objects
\* list these first, in ascending order, before the other names.
IsIndexKey(k) ==
  /\ k # <<>>
  /\ \A i \in 1..Len(k) : k[i] \in Digits
  /\ (Len(k) > 1 => k[1] # "0")

HasKey(ps, k) == \E i \in 1..Len(ps) : ps[i].k = k

\* obj[k], undefined when obj has no property k.
GetKey(ps, k) ==
  IF HasKey(ps, k) THEN ps[CHOOSE i \in 1..Len(ps) : ps[i].k = k].v ELSE JUndef

\* obj[k] = v: an existing property keeps its place; a new one goes after
\* the others, an integer-like one among the integer-like ones.
SetKey(ps, k, v) ==
  IF HasKey(ps, k)
  THEN [i \in 1..Len(ps) |-> IF ps[i].k = k THEN Prop(k, v) ELSE ps[i]]
  ELSE LET p == IF IsIndexKey(k)
                THEN Cardinality({i \in 1..Len(ps) : IsIndexKey(ps[i].k) /\ DigitsVal(ps[i].k) < DigitsVal(k)}) + 1
                ELSE Len(ps) + 1
       IN SubSeq(ps, 1, p - 1) \o <<Prop(k, v)>> \o SubSeq(ps, p, Len(ps))

\* JavaScript's truthiness, as `!a`, `a || b` and `a && b` test it.
Truthy(v) ==
  CASE v.t = "null" -> FALSE
    [] v.t = "undef" -> FALSE
    [] v.t = "nan" -> FALSE
    [] v.t = "bool" -> v.v
    [] v.t = "num" -> v.m # 0
    [] v.t = "str" -> v.v # <<>>
    [] OTHER -> TRUE

(***************************************************************************)
(* JSON.parse and JSON.stringify                                           *)
(*                                                                         *)
(* A parse yields [ok, v, i]: on success the value and the index after it, *)
(* on failure the index of the character the SyntaxError names.  The       *)
(* escape \uXXXX is outside the modelled texts.                            *)
(***************************************************************************)

POk(v, i) == [ok |-> TRUE, v |-> v, i |-> i]

PFail(i) == [ok |-> FALSE, v |-> JUndef, i |-> i]

JsonWs(s, i) == SkipIn(s, i, WhiteSpace)

\* The character an escape \c stands for in a JSON string ("" when \c is no
\* escape).
Unescape(c) ==
  CASE c = QUOTE -> QUOTE
    [] c = BSL -> BSL
    [] c = "/" -> "/"
    [] c = "n" -> "\n"
    [] c = "t" -> "\t"
    [] c = "r" -> "\r"
    [] c = "f" -> "\f"
    [] c = "b" -> "<BS>"
    [] OTHER -> ""

\* The characters of a JSON string from index i (after the opening quote) to
\* its closing quote.
RECURSIVE ParseString(_, _, _)
ParseString(s, i, acc) ==
  IF i > Len(s) THEN PFail(i)
  ELSE IF s[i] = QUOTE THEN POk(acc, i + 1)
  ELSE IF s[i] \in {"\n", "\t", "\r", "\f", "<BS>"} THEN PFail(i)
  ELSE IF s[i] = BSL
       THEN IF i + 1 > Len(s) THEN PFail(i + 1)
            ELSE IF Unescape(s[i + 1]) = "" THEN PFail(i + 1)
            ELSE ParseString(s, i + 2, Append(acc, Unescape(s[i + 1])))
  ELSE ParseString(s, i + 1, Append(acc, s[i]))

\* A decimal literal scanned from index a (after the sign): b ends its
\* integer digits, c its fraction, d starts its exponent digits and f ends
\* them; c = b when there is no fraction, f = c when there is no exponent.
ScanExp(s, a, b, c, d) ==
  [a |-> a, b |-> b, c |-> c, d |-> d, f |-> IF d > c THEN SkipIn(s, d, Digits) ELSE c]

ScanFrac(s, a, b, c) ==
  ScanExp(s, a, b, c,
          IF c <= Len(s) /\ s[c] \in {"e", "E"}
          THEN (IF c + 1 <= Len(s) /\ s[c + 1] \in {"+", "-"} THEN c + 2 ELSE c + 1)
          ELSE c)

ScanInt(s, a, b) == ScanFrac(s, a, b, IF b <= Len(s) /\ s[b] = "." THEN SkipIn(s, b + 1, Digits) ELSE b)

ScanDecimal(s, a) == ScanInt(s, a, SkipIn(s, a, Digits))

\* The digits of the scanned literal k, and how many of them are fraction
\* digits once the exponent is applied.
LitDigits(s, k) == DigitsVal(SubSeq(s, k.a, k.b - 1) \o SubSeq(s, k.b + 1, k.c - 1))

LitScale(s, k) ==
  (IF k.c > k.b THEN k.c - k.b - 1 ELSE 0)
    + (IF k.f > k.c
       THEN (IF s[k.c + 1] = "-" THEN 1 ELSE -1) * DigitsVal(SubSeq(s, k.d, k.f - 1))
       ELSE 0)

\* The number sign * digits * 10^(-scale).
Decimal(sign, digits, scale) ==
  IF scale >= 0 THEN JNum(sign * digits, scale) ELSE JInt(sign * digits * Pow10(-scale))

\* A JSON number at index i: -? int frac? exp?, scanned as k.
NumberAt(s, i, k) ==
  IF k.b = k.a THEN PFail(k.a)
  ELSE IF k.b > k.a + 1 /\ s[k.a] = "0" THEN PFail(k.a + 1)
  ELSE IF k.c = k.b + 1 THEN PFail(k.c)
  ELSE IF k.d > k.c /\ k.f = k.d THEN PFail(k.d)
  ELSE POk(Decimal(IF s[i] = "-" THEN -1 ELSE 1, LitDigits(s, k), LitScale(s, k)), k.f)

ParseNumber(s, i) == NumberAt(s, i, ScanDecimal(s, IF s[i] = "-" THEN i + 1 ELSE i))

RECURSIVE ParseValue(_, _)
RECURSIVE ParseElements(_, _, _)
RECURSIVE ParseMembers(_, _, _)

\* The elements of an array from index i (after "[" or ","), acc before
\* them: a value, then "," and the next, or "]".
ParseElements(s, i, acc) ==
  LET r == ParseValue(s, i)
      j == JsonWs(s, r.i)
  IN IF ~r.ok THEN r
     ELSE IF j > Len(s) THEN PFail(j)
     ELSE IF s[j] = "," THEN ParseElements(s, j + 1, Append(acc, r.v))
     ELSE IF s[j] = "]" THEN POk(JArr(Append(acc, r.v)), j + 1)
     ELSE PFail(j)

\* The members of an object from index i (after "{" or ","), acc before
\* them: a string, ":", a value, then "," and the next, or "}".
ParseMembers(s, i, acc) ==
  LET a == JsonWs(s, i)
      k == ParseString(s, a + 1, <<>>)
      c == JsonWs(s, k.i)
      r == ParseValue(s, c + 1)
      j == JsonWs(s, r.i)
  IN IF a > Len(s) \/ s[a] # QUOTE THEN PFail(a)
     ELSE IF ~k.ok THEN k
     ELSE IF c > Len(s) \/ s[c] # ":" THEN PFail(c)
     ELSE IF ~r.ok THEN r
     ELSE IF j > Len(s) THEN PFail(j)
     ELSE IF s[j] = "," THEN ParseMembers(s, j + 1, SetKey(acc, k.v, r.v))
     ELSE IF s[j] = "}" THEN POk(JObj(SetKey(acc, k.v, r.v)), j + 1)
     ELSE PFail(j)

\* The value at or after index i0, white space skipped.
ParseValue(s, i0) ==
  LET i == JsonWs(s, i0)
      j == JsonWs(s, i + 1)
      str == ParseString(s, i + 1, <<>>)
  IN IF i > Len(s) THEN PFail(i)
     ELSE IF s[i] = "{" THEN (IF j <= Len(s) /\ s[j] = "}" THEN POk(JObj(<<>>), j + 1) ELSE ParseMembers(s, i + 1, <<>>))
     ELSE IF s[i] = "[" THEN (IF j <= Len(s) /\ s[j] = "]" THEN POk(JArr(<<>>), j + 1) ELSE ParseElements(s, i + 1, <<>>))
     ELSE IF s[i] = QUOTE THEN (IF str.ok THEN POk(JStr(str.v), str.i) ELSE str)
     ELSE IF s[i] \in Digits \cup {"-"} THEN ParseNumber(s, i)
     ELSE IF MatchAt(s, i, Chars("true")) THEN POk(JBool(TRUE), i + 4)
     ELSE IF MatchAt(s, i, Chars("false")) THEN POk(JBool(FALSE), i + 5)
     ELSE IF MatchAt(s, i, Chars("null")) THEN POk(JNull, i + 4)
     ELSE PFail(i)

\* JSON.parse(s): [ok |-> TRUE, v |-> the value], or [ok |-> FALSE, i |-> the
\* index the SyntaxError names]; nothing but white space may follow the value.
JSONParse(s) ==
  LET r == ParseValue(s, 1)
      j == JsonWs(s, r.i)
  IN IF r.ok /\ j <= Len(s) THEN PFail(j) ELSE r

\* The text of a number: the fraction digits are padded to n.e places.
AbsText(a, e) ==
  LET ft == NatText(a % Pow10(e))
  IN NatText(a \div Pow10(e))
       \o (IF e = 0 THEN <<>> ELSE <<".">> \o [i \in 1..(e - Len(ft)) |-> "0"] \o ft)

NumText(n) == IF n.m < 0 THEN <<"-">> \o AbsText(-n.m, n.e) ELSE AbsText(n.m, n.e)

\* The escape of one character of a string in JSON.stringify.
Escape(c) ==
  CASE c = QUOTE -> <<BSL, QUOTE>>
    [] c = BSL -> <<BSL, BSL>>
    [] c = "\n" -> <<BSL, "n">>
    [] c = "\t" -> <<BSL, "t">>
    [] c = "\r" -> <<BSL, "r">>
    [] c = "\f" -> <<BSL, "f">>
    [] c = "<BS>" -> <<BSL, "b">>
    [] OTHER -> <<c>>

QuoteText(s) == <<QUOTE>> \o Concat([i \in 1..Len(s) |-> Escape(s[i])]) \o <<QUOTE>>

RECURSIVE JSONStringify(_)
RECURSIVE StringifyElems(_)
RECURSIVE StringifyProps(_)

\* The elements of an array: an undefined element is written null.  An
\* object's properties: the undefined-valued ones are left out.
StringifyElems(xs) ==
  Join([i \in 1..Len(xs) |-> IF xs[i].t # "undef" THEN JSONStringify(xs[i]) ELSE Chars("null")], <<",">>)

StringifyProps(ps) ==
  Join([i \in 1..Len(ps) |-> QuoteText(ps[i].k) \o <<":">> \o JSONStringify(ps[i].v)], <<",">>)

\* JSON.stringify(v) for a value other than undefined.
JSONStringify(v) ==
  CASE v.t = "null" -> Chars("null")
    [] v.t = "nan" -> Chars("null")
    [] v.t = "bool" -> IF v.v THEN Chars("true") ELSE Chars("false")
    [] v.t = "num" -> NumText(v)
    [] v.t = "str" -> QuoteText(v.v)
    [] v.t = "arr" -> <<"[">> \o StringifyElems(v.v) \o <<"]">>
    [] v.t = "obj" -> <<"{">> \o StringifyProps(SelectSeq(v.v, LAMBDA p : p.v.t # "undef")) \o <<"}">>

(***************************************************************************)
(* csvToExcalidrawStep: the row parser and the document assembler          *)
(***************************************************************************)

\* Number(s) for a text s: an optionally signed decimal literal with an
\* optional fraction and exponent; the empty text is 0; anything else is NaN.
\* (Hexadecimal literals and Infinity are outside the modelled texts.)
NumberLit(s, sign, k) ==
  IF k.b = k.a /\ k.c <= k.b + 1 THEN JNaN
  ELSE IF k.d > k.c /\ k.f = k.d THEN JNaN
  ELSE IF k.f <= Len(s) THEN JNaN
  ELSE Decimal(sign, LitDigits(s, k), LitScale(s, k))

TrimmedToNumber(s) ==
  IF s = <<>> THEN JInt(0)
  ELSE IF s[1] = "-" THEN NumberLit(s, -1, ScanDecimal(s, 2))
  ELSE IF s[1] = "+" THEN NumberLit(s, 1, ScanDecimal(s, 2))
  ELSE NumberLit(s, 1, ScanDecimal(s, 1))

\* Number(value): a cell is a string, or undefined when the row is too short.
ToNumber(value) == IF value.t = "undef" THEN JNaN ELSE TrimmedToNumber(Trim(value.v))

\* x || y
Or(x, y) == IF Truthy(x) THEN x ELSE y

\* Number(value) without the `|| 0`.
NumberOnly(value) == ToNumber(value)

\* Number(value) || 0
NumberOrZero(value) == Or(ToNumber(value), JInt(0))

\* try { JSON.parse(value.replace(/'/g, '"')) }: [ok |-> FALSE] when it
\* throws, which replace does on undefined (a TypeError) and JSON.parse on
\* malformed text (a SyntaxError).
ParseLiteral(value) ==
  IF value.t = "undef" THEN PFail(0)
  ELSE JSONParse([i \in 1..Len(value.v) |-> IF value.v[i] = "'" THEN QUOTE ELSE value.v[i]])

\* A catch block that sets nothing.
OrFallbackEmptyCatch(parsed, fallback) == IF parsed.ok THEN parsed.v ELSE JUndef

\* A case without its try and catch: what JSON.parse or replace throws
\* leaves the callback.
OrFallbackUncaught(parsed, fallback) == IF parsed.ok THEN parsed.v ELSE Uncaught

\* try { ... } catch { fallback }
OrFallback(parsed, fallback) == IF parsed.ok THEN parsed.v ELSE fallback

NumericHeaders == {Chars("width"), Chars("height"), Chars("x"), Chars("y"), Chars("angle"), Chars("strokeWidth"), Chars("roughness"), Chars("opacity"), Chars("fontSize"), Chars("seed"), Chars("version")}

\* A comparison of the cell with true that ignores the case of its first
\* letter.
IsTrueAnyCase(value) == value \in {JStr(Chars("true")), JStr(Chars("True"))}

\* value === "true"
IsTrue(value) == value = JStr(Chars("true"))

\* The switch on the header: the value element[header] is set to; parsed is
\* what the try of the case yields.
Switch(header, value, parsed) ==
  CASE header = Chars("points") -> OrFallback(parsed, JArr(<<JArr(<<JInt(0), JInt(0)>>)>>))
    [] header = Chars("boundElements") -> OrFallback(parsed, JArr(<<>>))
    [] header \in {Chars("startBinding"), Chars("endBinding")} -> OrFallback(parsed, JNull)
    [] header = Chars("groupIds") -> OrFallback(parsed, JArr(<<>>))
    [] header \in NumericHeaders -> NumberOrZero(value)
    [] header = Chars("isDeleted") -> JBool(IsTrue(value))
    [] header = Chars("fontFamily") -> IF value = JStr(Chars("20")) THEN JStr(Chars("Arial")) ELSE value
    [] OTHER ->
         IF value.t = "str" /\ (\E i \in 1..Len(value.v) : value.v[i] = QUOTE)
         THEN OrFallback(parsed, JStr(SelectSeq(value.v, LAMBDA c : c # QUOTE)))
         ELSE value

CoerceField(header, value) == Switch(header, value, ParseLiteral(value))

\* values[index] for a zero-based index: undefined past the end of the row.
CellAt(values, index) == IF index + 1 <= Len(values) THEN JStr(values[index + 1]) ELSE JUndef

\* if (value === "") return; ... element[header] = ...
SetField(element, header, value) ==
  IF value = JStr(<<>>) THEN element ELSE SetKey(element, header, CoerceField(header, value))

\* headers.forEach((header, index) => ...) from index on.
RECURSIVE ForEachHeader(_, _, _, _)
ForEachHeader(headers, values, index, element) ==
  IF index >= Len(headers) THEN element
  ELSE ForEachHeader(headers, values, index + 1,
                     SetField(element, headers[index + 1], CellAt(values, index)))

\* A fixed-field pass that also stamps the record's version with the clock.
RequiredPropertiesStamping(element, now) ==
  LET e1 == SetKey(element, Chars("frameId"), Or(GetKey(element, Chars("frameId")), JNull))
      e2 == SetKey(e1, Chars("updated"), JInt(now))
      e3 == SetKey(e2, Chars("link"), JNull)
  IN SetKey(SetKey(e3, Chars("locked"), JBool(FALSE)), Chars("version"), JInt(now))

\* A fixed-field pass that defaults link and locked as it defaults frameId.
RequiredPropertiesDefaulting(element, now) ==
  LET e1 == SetKey(element, Chars("frameId"), Or(GetKey(element, Chars("frameId")), JNull))
      e2 == SetKey(e1, Chars("updated"), JInt(now))
      e3 == SetKey(e2, Chars("link"), Or(GetKey(e2, Chars("link")), JNull))
  IN SetKey(e3, Chars("locked"), Or(GetKey(e3, Chars("locked")), JBool(FALSE)))

\* "Add required element properties"
RequiredProperties(element, now) ==
  LET e1 == SetKey(element, Chars("frameId"), Or(GetKey(element, Chars("frameId")), JNull))
      e2 == SetKey(e1, Chars("updated"), JInt(now))
      e3 == SetKey(e2, Chars("link"), JNull)
  IN SetKey(e3, Chars("locked"), JBool(FALSE))

\* A text-specific pass that keeps what the row has set.
TextSpecificsKeepingRow(element) ==
  IF GetKey(element, Chars("type")) = JStr(Chars("text"))
  THEN LET keep(e, k, v) == IF HasKey(e, k) THEN e ELSE SetKey(e, k, v)
           e1 == keep(element, Chars("originalText"), GetKey(element, Chars("text")))
           e2 == keep(e1, Chars("lineHeight"), JNum(125, 2))
           e3 == keep(e2, Chars("baseline"), JInt(0))
           e4 == keep(e3, Chars("containerId"), JNull)
       IN keep(e4, Chars("autoResize"), JBool(TRUE))
  ELSE element

\* "Handle text element specifics"
TextSpecifics(element) ==
  IF GetKey(element, Chars("type")) = JStr(Chars("text"))
  THEN LET e1 == SetKey(element, Chars("originalText"), GetKey(element, Chars("text")))
           e2 == SetKey(e1, Chars("lineHeight"), JNum(125, 2))
           e3 == SetKey(e2, Chars("baseline"), JInt(0))
           e4 == SetKey(e3, Chars("containerId"), JNull)
       IN SetKey(e4, Chars("autoResize"), JBool(TRUE))
  ELSE element

\* if (element[k] && typeof element[k] === "string") element[k] = []
StringToArray(element, k) ==
  IF Truthy(GetKey(element, k)) /\ GetKey(element, k).t = "str"
  THEN SetKey(element, k, JArr(<<>>))
  ELSE element

\* "Ensure arrays are arrays and not strings"
EnsureArrays(element) == StringToArray(StringToArray(element, Chars("groupIds")), Chars("boundElements"))

\* xs.map((x) => x.trim())
TrimAll(xs) == [i \in 1..Len(xs) |-> Trim(xs[i])]

\* The callback of rows.slice(1).map: one row to one element; now is what
\* Date.now() returns.
RowToElement(headers, row, now) ==
  JObj(EnsureArrays(TextSpecifics(RequiredProperties(ForEachHeader(headers, TrimAll(Split(row, ",")), 0, <<>>), now))))

\* Rows that keep the lines that are empty after trimming.
CsvRowsUnfiltered(text) == TrimAll(Split(text, "\n"))

\* csv.split("\n").map((line) => line.trim()).filter((line) => line.length > 0)
CsvRows(text) == SelectSeq(TrimAll(Split(text, "\n")), LAMBDA line : Len(line) > 0)

\* The lines of a text that are non-empty after trimming, told without
\* splitting: the places where such a line has its first character that is
\* no white space, and the n-th such line from that character to its last
\* that is no white space.
LineStarts(text) ==
  {i \in 1..Len(text) :
     /\ text[i] \notin WhiteSpace
     /\ \A j \in 1..(i - 1) : (\A k \in j..(i - 1) : text[k] # "\n") => text[j] \in WhiteSpace}

NonBlankLine(text, n) ==
  LET starts == LineStarts(text)
      p == CHOOSE q \in starts : Cardinality({q2 \in starts : q2 <= q}) = n
      inLine == {j \in p..Len(text) : text[j] \notin WhiteSpace /\ \A k \in p..j : text[k] # "\n"}
  IN SubSeq(text, p, CHOOSE j \in inLine : \A j2 \in inLine : j2 <= j)

\* rows[0].split(",").map((h) => h.trim())
CsvHeaders(rows) == TrimAll(Split(rows[1], ","))

\* rows.slice(1).map(...): clock[i] is Date.now() at the i-th data row.
CsvElements(rows, clock) ==
  [i \in 1..(Len(rows) - 1) |-> RowToElement(CsvHeaders(rows), rows[i + 1], clock[i])]

gridSize == 20

gridStep == 5

\* "Create Excalidraw JSON"
ExcalidrawJson(elements) ==
  JObj(<<Prop(Chars("type"), JStr(Chars("excalidraw"))),
         Prop(Chars("version"), JInt(2)),
         Prop(Chars("source"), JStr(Chars("https://excalidraw.com"))),
         Prop(Chars("elements"), JArr(elements)),
         Prop(Chars("appState"),
              JObj(<<Prop(Chars("gridSize"), JInt(gridSize)),
                     Prop(Chars("gridStep"), JInt(gridStep)),
                     Prop(Chars("gridModeEnabled"), JBool(FALSE)),
                     Prop(Chars("viewBackgroundColor"), JStr(Chars("#ffffff")))>>)),
         Prop(Chars("files"), JObj(<<>>))>>)

(***************************************************************************)
(* The inputs of a run and the texts the agents answer with                *)
(***************************************************************************)

Filenames == {<<>>, Chars("a.jpg")}

Files == {<<>>, Chars("img")}

\* response.text of the image-to-CSV call.
ImageToCsvTexts == {<<>>, Chars("type,x\ntext,1")}

\* response.text of the self-review call.
ValidateCsvTexts ==
  {<<>>,
   Chars(" \n "),
   Chars("type,x,y,text"),
   Chars("type,x,y,text\ntext,10,20,Hello\nrectangle,0,0,"),
   Chars("\n id , groupIds\n\n a , 'g' \n")}

\* Intermediate texts of up to MaxLines lines, each an empty line, a blank
\* line, a header or a data row.
MaxLines == 4

AssemblerLines == {<<>>, Chars(" "), Chars("id,x"), Chars(" a , 1 ")}

AssemblerTexts ==
  {Join(lines, <<"\n">>) : lines \in UNION {[1..n -> AssemblerLines] : n \in 1..MaxLines}}

\* Intermediate texts of a header line and one data line, with or without a
\* second data line after it: the header has up to MaxColumns different
\* column names, or is one of the numeric columns, alone or after an id
\* column; the data line has up to MaxCells cells.
MaxColumns == 2

MaxCells == 2

Columns ==
  {Chars("x"), Chars("points"), Chars("boundElements"), Chars("startBinding"), Chars("endBinding"),
   Chars("groupIds"), Chars("isDeleted"), Chars("type"), Chars("text"), Chars("frameId"),
   Chars("link"), Chars("locked"), Chars("updated"), Chars("lineHeight"), Chars("originalText")}

\* A cell: empty, a number, the literal true (also padded) and True, the
\* discriminator of text elements, malformed structured syntax, a
\* single-quoted literal, and a text with one double quote.
Cells ==
  {<<>>, Chars("1"), Chars("true"), Chars(" true "), Chars("True"), Chars("text"), Chars("[1"), Chars("'g'"), Chars("''"), <<QUOTE, "q">>}

RowTexts ==
  {Join(header, <<",">>) \o <<"\n">> \o Join(cells, <<",">>) \o tail :
     header \in {h \in UNION {[1..n -> Columns] : n \in 1..MaxColumns} :
                   \A i, j \in 1..Len(h) : h[i] = h[j] => i = j}
                 \cup {<<c>> : c \in NumericHeaders} \cup {<<Chars("id"), c>> : c \in NumericHeaders},
     cells \in UNION {[1..n -> Cells] : n \in 1..MaxCells},
     tail \in {<<>>, Chars("\n1")}}

\* The values of Date.now() are 1..MaxClock.
MaxClock == 2

\* Documents a validator answer may encode: with a number, and with a string
\* that holds a quote, a line break, or a backslash and an n.
ReplyDocs ==
  {JObj(<<Prop(<<"a">>, JInt(1))>>),
   JObj(<<Prop(<<"a">>, JStr(<<QUOTE>>))>>),
   JObj(<<Prop(<<"a">>, JStr(<<"\n">>))>>),
   JObj(<<Prop(<<"a">>, JStr(<<BSL, "n">>))>>)}

\* Documents a validator answer may encode wrapped in quotes.
WrappedDocs ==
  {JObj(<<Prop(<<"a">>, JInt(1))>>),
   JObj(<<Prop(<<"a">>, JStr(<<"\n">>))>>),
   JObj(<<Prop(<<"a">>, JStr(<<BSL, "n">>))>>)}

\* Answers that are not structured data.
MalformedTexts == {Chars("{\"a\":"), Chars("oops")}

\* A text in one pair of outer double quotes, its own quotes escaped.
WrapQuoted(text) ==
  <<QUOTE>> \o Concat([i \in 1..Len(text) |-> IF text[i] = QUOTE THEN <<BSL, QUOTE>> ELSE <<text[i]>>]) \o <<QUOTE>>

\* validationResponse.text, apart from an echo of the candidate document: a
\* document as it is, a document wrapped in quotes, or a malformed text.
AnswerTexts ==
  {JSONStringify(d) : d \in ReplyDocs} \cup {WrapQuoted(JSONStringify(d)) : d \in WrappedDocs} \cup MalformedTexts

(***************************************************************************)
(* The workflow: one run is createRunAsync() + start({inputData}); the     *)
(* steps run one after the other, each on the output of the one before,    *)
(* and a step that throws ends the run with status "failed".  A step is    *)
(* atomic up to its await of agent.generate, which resolves with a text or *)
(* rejects with an error.                                                  *)
(***************************************************************************)

VARIABLES
  pc,              \* where each run stands: a step about to execute, a step awaiting generate, "created" or "done"
  status,          \* result.status of each run: "pending", "running", "success" or "failed"
  steps,           \* result.steps of each run: the status of every step
  started,         \* the ids of the steps each run has executed, in order
  error,           \* the error the run failed with
  result,          \* result.result: the output of the last step of a successful run
  filename,        \* inputData.filename of the current step
  file,            \* inputData.file of the current step
  csv,             \* inputData.csv of the current step
  excalidrawJson,  \* inputData.excalidrawJson of the current step
  messages,        \* validateExcalidrawStep: the conversation
  attempts,        \* validateExcalidrawStep: the attempt counter
  lastError,       \* validateExcalidrawStep: the last parse error
  requests,        \* the generate calls each run has issued: [agent, messages]
  responses        \* what the generate calls of each run resolved or rejected with

vars == <<pc, status, steps, started, error, result, filename, file, csv, excalidrawJson, messages, attempts, lastError, requests, responses>>

Runs == DOMAIN pc

\* The chain .then(imageToCsvStep).then(validateCsvStep).then(csvToExcalidrawStep).then(validateExcalidrawStep)
StepChain == <<"imageToCsv", "validateCsv", "csvToExcalidraw", "validateExcalidraw">>

StepIndex(step) == CHOOSE i \in 1..Len(StepChain) : StepChain[i] = step

\* A chain that passes over the step after the one that returned.
AfterStepSkipping(step) ==
  IF StepIndex(step) + 1 < Len(StepChain) THEN StepChain[StepIndex(step) + 2] ELSE "done"

\* A failed step that is executed again instead of ending the run.
AfterThrowRetry(step) == step

\* Where a run goes when step has returned: the next step of the chain, or
\* "done" after the last.
AfterStep(step) ==
  IF StepIndex(step) < Len(StepChain) THEN StepChain[StepIndex(step) + 1] ELSE "done"

\* Where a run goes when step has thrown: the run is over.
AfterThrow(step) == "done"

\* A step stands at its `await agent.generate(...)`.
Awaiting(step) ==
  CASE step = "imageToCsv" -> "imageToCsv.generate"
    [] step = "validateCsv" -> "validateCsv.generate"
    [] step = "validateExcalidraw" -> "validateExcalidraw.generate"

\* An Error: its message, in a fixed part and the text put into it.
Err(message, detail) == [message |-> message, detail |-> detail]

NoError == Err("", <<>>)

NoResult == [filename |-> <<>>, contents |-> JUndef]

\* The error agent.generate rejects with.
GenerateError == Err("generate rejected", <<>>)

Resolved(text) == [ok |-> TRUE, text |-> text]

Rejected == [ok |-> FALSE, text |-> <<>>]

TextPart(text) == [type |-> "text", text |-> text]

ImagePart(image) == [type |-> "image", image |-> image]

Message(role, content) == [role |-> role, content |-> content]

\* A step that suspends the run where it should throw.
ThrowSuspending(r, step, err) ==
  /\ pc' = [pc EXCEPT ![r] = AfterThrow(step)]
  /\ status' = [status EXCEPT ![r] = "suspended"]
  /\ steps' = [steps EXCEPT ![r][step] = "suspended"]
  /\ error' = [error EXCEPT ![r] = err]
  /\ UNCHANGED <<result, filename, file, csv, excalidrawJson>>

\* The step throws: the run fails at this step.
Throw(r, step, err) ==
  /\ pc' = [pc EXCEPT ![r] = AfterThrow(step)]
  /\ status' = [status EXCEPT ![r] = "failed"]
  /\ steps' = [steps EXCEPT ![r][step] = "failed"]
  /\ error' = [error EXCEPT ![r] = err]
  /\ UNCHANGED <<result, filename, file, csv, excalidrawJson>>

\* The step returns: the run goes on with the next step, or succeeds with
\* the output of the last.
Return(r, step, output) ==
  /\ pc' = [pc EXCEPT ![r] = AfterStep(step)]
  /\ steps' = [steps EXCEPT ![r][step] = "success"]
  /\ status' = [status EXCEPT ![r] = IF AfterStep(step) = "done" THEN "success" ELSE @]
  /\ result' = [result EXCEPT ![r] = IF AfterStep(step) = "done" THEN output ELSE @]
  /\ UNCHANGED error

\* await agent.generate(msgs, ...): the call is issued and the step waits.
Generate(r, step, agent, msgs) ==
  /\ pc' = [pc EXCEPT ![r] = Awaiting(step)]
  /\ requests' = [requests EXCEPT ![r] = Append(@, [agent |-> agent, messages |-> msgs])]
  /\ UNCHANGED <<status, error, result, filename, file, csv, excalidrawJson>>

\* run.start({ inputData: { filename, file } })
Start(r, name, image) ==
  /\ pc[r] = "created"
  /\ pc' = [pc EXCEPT ![r] = StepChain[1]]
  /\ status' = [status EXCEPT ![r] = "running"]
  /\ filename' = [filename EXCEPT ![r] = name]
  /\ file' = [file EXCEPT ![r] = image]
  /\ UNCHANGED <<steps, started, error, result, csv, excalidrawJson, messages, attempts, lastError, requests, responses>>

(***************************************************************************)
(* imageToCsvStep                                                          *)
(***************************************************************************)

ImageToCsvPrompt == Chars("View this image of a whiteboard diagram and convert it into CSV format. Include all text, lines, arrows, and shapes. Think through all the elements of the image.")

ImageToCsvMessages(image) == <<Message("user", <<ImagePart(image), TextPart(ImageToCsvPrompt)>>)>>

\* `${filename.split(".")[0]}.excalidraw`
ExcalidrawName(name) == Split(name, ".")[1] \o Chars(".excalidraw")

ImageToCsvExecute(r) ==
  /\ pc[r] = "imageToCsv"
  /\ started' = [started EXCEPT ![r] = Append(@, "imageToCsv")]
  /\ UNCHANGED <<messages, attempts, lastError>>
  /\ IF filename[r] = <<>> \/ file[r] = <<>>
     THEN /\ Throw(r, "imageToCsv", Err("Missing required image data", <<>>))
          /\ UNCHANGED <<requests, responses>>
     ELSE /\ Generate(r, "imageToCsv", "imageToCsvAgent", ImageToCsvMessages(file[r]))
          /\ UNCHANGED responses
          /\ steps' = [steps EXCEPT ![r]["imageToCsv"] = "running"]

ImageToCsvResolve(r, response) ==
  /\ pc[r] = Awaiting("imageToCsv")
  /\ responses' = [responses EXCEPT ![r] = Append(@, response)]
  /\ UNCHANGED <<started, messages, attempts, lastError, requests>>
  /\ IF ~response.ok
     THEN Throw(r, "imageToCsv", GenerateError)
     ELSE /\ Return(r, "imageToCsv", NoResult)
          /\ filename' = [filename EXCEPT ![r] = ExcalidrawName(@)]
          /\ csv' = [csv EXCEPT ![r] = response.text]
          /\ UNCHANGED <<file, excalidrawJson>>

(***************************************************************************)
(* validateCsvStep                                                         *)
(***************************************************************************)

ValidateCsvFirstPrompt == Chars("View this image of a whiteboard diagram and convert it into CSV format.")

ValidateCsvPrompt == Chars("Validate your last response containing the CSV code to add missing elements (text, lines, etc.) to the CSV. You should add new items to the original CSV results. The previous step missed some elements. Find them and add them. Return the CSV text.")

ValidateCsvMessages(image, text) ==
  <<Message("user", <<ImagePart(image), TextPart(ValidateCsvFirstPrompt)>>),
    Message("assistant", <<TextPart(text)>>),
    Message("user", <<TextPart(ValidateCsvPrompt)>>)>>

\* A self-review step that does not check the text it was given.
ValidateCsvExecuteUnchecked(r) ==
  /\ pc[r] = "validateCsv"
  /\ started' = [started EXCEPT ![r] = Append(@, "validateCsv")]
  /\ UNCHANGED <<messages, attempts, lastError>>
  /\ IF file[r] = <<>>
     THEN /\ Throw(r, "validateCsv", Err("Missing required image data", <<>>))
          /\ UNCHANGED <<requests, responses>>
     ELSE /\ Generate(r, "validateCsv", "imageToCsvAgent", ValidateCsvMessages(file[r], csv[r]))
          /\ UNCHANGED responses
          /\ steps' = [steps EXCEPT ![r]["validateCsv"] = "running"]

ValidateCsvExecute(r) ==
  /\ pc[r] = "validateCsv"
  /\ started' = [started EXCEPT ![r] = Append(@, "validateCsv")]
  /\ UNCHANGED <<messages, attempts, lastError>>
  /\ IF filename[r] = <<>> \/ csv[r] = <<>>
     THEN /\ Throw(r, "validateCsv", Err("Missing required CSV data", <<>>))
          /\ UNCHANGED <<requests, responses>>
     ELSE IF file[r] = <<>>
     THEN /\ Throw(r, "validateCsv", Err("Missing required image data", <<>>))
          /\ UNCHANGED <<requests, responses>>
     ELSE /\ Generate(r, "validateCsv", "imageToCsvAgent", ValidateCsvMessages(file[r], csv[r]))
          /\ UNCHANGED responses
          /\ steps' = [steps EXCEPT ![r]["validateCsv"] = "running"]

\* A self-review step that returns the csv it was given, not the response.
ValidateCsvResolveKeepingCsv(r, response) ==
  /\ pc[r] = Awaiting("validateCsv")
  /\ responses' = [responses EXCEPT ![r] = Append(@, response)]
  /\ UNCHANGED <<started, messages, attempts, lastError, requests>>
  /\ IF ~response.ok
     THEN Throw(r, "validateCsv", GenerateError)
     ELSE /\ Return(r, "validateCsv", NoResult)
          /\ file' = [file EXCEPT ![r] = <<>>]
          /\ UNCHANGED <<csv, filename, excalidrawJson>>

ValidateCsvResolve(r, response) ==
  /\ pc[r] = Awaiting("validateCsv")
  /\ responses' = [responses EXCEPT ![r] = Append(@, response)]
  /\ UNCHANGED <<started, messages, attempts, lastError, requests>>
  /\ IF ~response.ok
     THEN Throw(r, "validateCsv", GenerateError)
     ELSE /\ Return(r, "validateCsv", NoResult)
          /\ csv' = [csv EXCEPT ![r] = response.text]
          /\ file' = [file EXCEPT ![r] = <<>>]
          /\ UNCHANGED <<filename, excalidrawJson>>

(***************************************************************************)
(* csvToExcalidrawStep                                                     *)
(***************************************************************************)

\* A check that lets a header without data rows through.
TooFewRowsLenient(rows) == Len(rows) < 1

\* rows.length < 2
TooFewRows(rows) == Len(rows) < 2

\* An exception has left the callback of rows.slice(1).map at some row.
Aborted(elements) ==
  \E i \in 1..Len(elements) : \E j \in 1..Len(elements[i].v) : elements[i].v[j].v = Uncaught

\* The step from `const elements = ...` on: an exception that leaves the
\* callback leaves execute, and the step fails with it.
Assemble(r, elements) ==
  IF Aborted(elements)
  THEN Throw(r, "csvToExcalidraw", Err("uncaught", <<>>))
  ELSE /\ Return(r, "csvToExcalidraw", NoResult)
       /\ excalidrawJson' = [excalidrawJson EXCEPT ![r] = ExcalidrawJson(elements)]
       /\ csv' = [csv EXCEPT ![r] = <<>>]
       /\ UNCHANGED <<filename, file>>

\* The step from `if (rows.length < 2)` on, rows being the non-empty lines.
ConvertRows(r, rows, clock) ==
  IF TooFewRows(rows)
  THEN Throw(r, "csvToExcalidraw", Err("CSV must have header row and at least one data row", <<>>))
  ELSE Assemble(r, CsvElements(rows, clock))

\* clock[i] is what Date.now() returns at the i-th data row.
CsvToExcalidrawExecute(r, clock) ==
  /\ pc[r] = "csvToExcalidraw"
  /\ started' = [started EXCEPT ![r] = Append(@, "csvToExcalidraw")]
  /\ UNCHANGED <<messages, attempts, lastError, requests, responses>>
  /\ IF filename[r] = <<>> \/ csv[r] = <<>>
     THEN Throw(r, "csvToExcalidraw", Err("Missing required CSV data", <<>>))
     ELSE ConvertRows(r, CsvRows(csv[r]), clock)

(***************************************************************************)
(* validateExcalidrawStep: the validate-repair loop                        *)
(***************************************************************************)

\* A loop with a budget of one attempt more.
maxAttemptsWidened == 3 + 1

maxAttempts == 3

\* A run that has issued MaxCalls validator calls is followed no further: it
\* caps the conversation of a loop that does not end.
MaxCalls == 4

ValidatePrompt == Chars("Validate the following Excalidraw JSON. If it is not valid, fix it and just return the valid JSON.")

CorrectivePrompt == Chars("The previous Excalidraw JSON did not validate. Please fix it and return the valid JSON without any string quotes or new lines. Here is the error: ")

\* const messages: CoreMessage[] = [...]
InitialMessages(json) == <<Message("user", <<TextPart(ValidatePrompt), TextPart(JSONStringify(json))>>)>>

\* The cleanup of the response text before JSON.parse.
\* A text that starts and ends with a double quote loses both.
Unwrap(text) ==
  IF Len(text) >= 1 /\ text[1] = QUOTE /\ text[Len(text)] = QUOTE THEN SubSeq(text, 2, Len(text) - 1) ELSE text

CleanResponse(text) == ReplacePair(ReplacePair(Unwrap(text), BSL, QUOTE, <<QUOTE>>), BSL, "n", <<>>)

\* A try block that parses the response text as it came, without the cleanup.
TryParseUncleaned(text) == JSONParse(text)

\* The try block: [ok |-> TRUE, v |-> parsedJson], or the SyntaxError.
TryParse(text) == JSONParse(CleanResponse(text))

\* The texts of the candidate documents the assembler hands over, for the
\* intermediate texts and the clocks above.
CandidateTexts ==
  UNION {{JSONStringify(ExcalidrawJson(CsvElements(CsvRows(t), clock))) :
            clock \in [1..(Len(CsvRows(t)) - 1) -> 1..MaxClock]} :
         t \in {u \in ValidateCsvTexts : ~TooFewRows(CsvRows(u))}}

\* The try block on each text a validator answers with, evaluated once.
TryParsed == [text \in AnswerTexts \cup CandidateTexts |-> TryParse(text)]

\* The SyntaxError of a failed parse; the engine's wording is reduced to the
\* position it names.
SyntaxError(parsed) == Err("SyntaxError", Chars("Unexpected token in JSON at position ") \o NatText(parsed.i - 1))

\* `${e}`
ErrorString(e) == Chars(e.message) \o Chars(": ") \o e.detail

\* The Error thrown after the loop.
ExhaustedError(lastErr) ==
  Err("Failed to validate Excalidraw JSON", Chars("after ") \o NatText(maxAttempts) \o Chars(" attempts. Last error: ") \o lastErr.detail)

\* A catch block that keeps only the latest failure in the conversation.
CorrectiveTurnsLatestOnly(msgs, text, e) ==
  <<msgs[1], Message("assistant", <<TextPart(text)>>),
    Message("user", <<TextPart(CorrectivePrompt \o ErrorString(e))>>)>>

\* A catch block whose corrective turn leaves the error out.
CorrectiveTurnsWithoutError(msgs, text, e) ==
  msgs \o <<Message("assistant", <<TextPart(text)>>),
            Message("user", <<TextPart(CorrectivePrompt)>>)>>

\* The two messages.push of the catch block.
CorrectiveTurns(msgs, text, e) ==
  msgs \o <<Message("assistant", <<TextPart(text)>>),
            Message("user", <<TextPart(CorrectivePrompt \o ErrorString(e))>>)>>

\* A loop that forgets to count its attempts.
NextAttemptUncounted(n) == n

\* attempts++
NextAttempt(n) == n + 1

ValidatorCalls(r) == Len(SelectSeq(requests[r], LAMBDA q : q.agent = "excalidrawValidatorAgent"))

\* What the validator calls of run r have resolved or rejected with, in order:
\* responses[r][i] answers requests[r][i].
ValidatorReplies(r) ==
  LET at == SelectSeq([i \in 1..Len(responses[r]) |-> i], LAMBDA i : requests[r][i].agent = "excalidrawValidatorAgent")
  IN [k \in 1..Len(at) |-> responses[r][at[k]]]

\* A loop whose counter is one variable of the module, shared by all runs.
WhileLoopSharedCounter(r, n, msgs, lastErr) ==
  /\ messages' = [messages EXCEPT ![r] = msgs]
  /\ lastError' = [lastError EXCEPT ![r] = lastErr]
  /\ IF n < maxAttempts
     THEN /\ attempts' = [q \in Runs |-> NextAttempt(n)]
          /\ Generate(r, "validateExcalidraw", "excalidrawValidatorAgent", msgs)
          /\ UNCHANGED steps
     ELSE /\ attempts' = [q \in Runs |-> n]
          /\ Throw(r, "validateExcalidraw", ExhaustedError(lastErr))
          /\ UNCHANGED requests

\* A loop whose conversation is one array of the module, shared by all runs.
WhileLoopSharedMessages(r, n, msgs, lastErr) ==
  /\ messages' = [q \in Runs |-> msgs]
  /\ lastError' = [lastError EXCEPT ![r] = lastErr]
  /\ IF n < maxAttempts
     THEN /\ attempts' = [attempts EXCEPT ![r] = NextAttempt(n)]
          /\ Generate(r, "validateExcalidraw", "excalidrawValidatorAgent", msgs)
          /\ UNCHANGED steps
     ELSE /\ attempts' = [attempts EXCEPT ![r] = n]
          /\ Throw(r, "validateExcalidraw", ExhaustedError(lastErr))
          /\ UNCHANGED requests

\* while (attempts < maxAttempts) { attempts++; await validator.generate(messages, ...) ... }
\* from the loop test on, with the locals as given; after the loop, the throw.
WhileLoop(r, n, msgs, lastErr) ==
  /\ messages' = [messages EXCEPT ![r] = msgs]
  /\ lastError' = [lastError EXCEPT ![r] = lastErr]
  /\ IF n < maxAttempts
     THEN /\ attempts' = [attempts EXCEPT ![r] = NextAttempt(n)]
          /\ Generate(r, "validateExcalidraw", "excalidrawValidatorAgent", msgs)
          /\ UNCHANGED steps
     ELSE /\ attempts' = [attempts EXCEPT ![r] = n]
          /\ Throw(r, "validateExcalidraw", ExhaustedError(lastErr))
          /\ UNCHANGED requests

ValidateExcalidrawExecute(r) ==
  /\ pc[r] = "validateExcalidraw"
  /\ started' = [started EXCEPT ![r] = Append(@, "validateExcalidraw")]
  /\ UNCHANGED responses
  /\ IF filename[r] = <<>> \/ ~Truthy(excalidrawJson[r])
     THEN /\ Throw(r, "validateExcalidraw", Err("Missing required Excalidraw data", <<>>))
          /\ UNCHANGED <<messages, attempts, lastError, requests>>
     ELSE WhileLoop(r, 0, InitialMessages(excalidrawJson[r]), NoError)

\* A catch block that remembers the first failure of the run, not the latest.
CatchKeepingFirst(r, text, e) ==
  LET first == IF lastError[r] = NoError THEN e ELSE lastError[r]
  IN IF attempts[r] >= maxAttempts
     THEN /\ Throw(r, "validateExcalidraw", ExhaustedError(first))
          /\ lastError' = [lastError EXCEPT ![r] = first]
          /\ UNCHANGED <<messages, attempts, requests>>
     ELSE WhileLoop(r, attempts[r], CorrectiveTurns(messages[r], text, e), first)

\* The catch block: e is the error JSON.parse threw on the response text.
Catch(r, text, e) ==
  IF attempts[r] >= maxAttempts
  THEN /\ Throw(r, "validateExcalidraw", ExhaustedError(e))
       /\ lastError' = [lastError EXCEPT ![r] = e]
       /\ UNCHANGED <<messages, attempts, requests>>
  ELSE WhileLoop(r, attempts[r], CorrectiveTurns(messages[r], text, e), e)

\* The try block on the response text, parsed being what it evaluates to.
TryCatch(r, text, parsed) ==
  IF parsed.ok
  THEN /\ Return(r, "validateExcalidraw", [filename |-> filename[r], contents |-> parsed.v])
       /\ UNCHANGED <<filename, file, csv, excalidrawJson, messages, attempts, lastError, requests>>
  ELSE Catch(r, text, SyntaxError(parsed))

\* A loop that awaits generate inside the try: a rejection is caught as a
\* failed attempt.
ValidateExcalidrawResolveCatching(r, response) ==
  /\ pc[r] = Awaiting("validateExcalidraw")
  /\ ValidatorCalls(r) < MaxCalls
  /\ responses' = [responses EXCEPT ![r] = Append(@, response)]
  /\ UNCHANGED started
  /\ IF ~response.ok
     THEN Catch(r, <<>>, GenerateError)
     ELSE TryCatch(r, response.text, TryParsed[response.text])

\* The awaited validator call resolves or rejects; a rejection leaves the
\* step as its error, for generate is awaited outside the try.
ValidateExcalidrawResolve(r, response) ==
  /\ pc[r] = Awaiting("validateExcalidraw")
  /\ ValidatorCalls(r) < MaxCalls
  /\ responses' = [responses EXCEPT ![r] = Append(@, response)]
  /\ UNCHANGED started
  /\ IF ~response.ok
     THEN /\ Throw(r, "validateExcalidraw", GenerateError)
          /\ UNCHANGED <<messages, attempts, lastError, requests>>
     ELSE TryCatch(r, response.text, TryParsed[response.text])

(***************************************************************************)
(* What the environment of a run may do next                               *)
(***************************************************************************)

\* One Date.now() per data row of the csv of run r, each in 1..MaxClock.
Clocks(r) ==
  LET n == Len(CsvRows(csv[r]))
  IN [1..(IF pc[r] = "csvToExcalidraw" /\ n >= 2 THEN n - 1 ELSE 0) -> 1..MaxClock]

Responses(texts) == {Resolved(t) : t \in texts} \cup {Rejected}

\* What the validator call run r awaits may resolve or reject with: one of
\* the texts above, or the candidate document echoed as the first message
\* carries it.
ValidatorResponses(r) ==
  IF pc[r] = Awaiting("validateExcalidraw")
  THEN Responses(AnswerTexts \cup {messages[r][1].content[2].text})
  ELSE {}

(***************************************************************************)
(* The specification                                                       *)
(***************************************************************************)

InitRuns(ids) ==
  /\ pc = [r \in ids |-> "created"]
  /\ status = [r \in ids |-> "pending"]
  /\ steps = [r \in ids |-> [s \in {StepChain[i] : i \in 1..Len(StepChain)} |-> "none"]]
  /\ started = [r \in ids |-> <<>>]
  /\ error = [r \in ids |-> NoError]
  /\ result = [r \in ids |-> NoResult]
  /\ filename = [r \in ids |-> <<>>]
  /\ file = [r \in ids |-> <<>>]
  /\ csv = [r \in ids |-> <<>>]
  /\ excalidrawJson = [r \in ids |-> JUndef]
  /\ messages = [r \in ids |-> <<>>]
  /\ attempts = [r \in ids |-> 0]
  /\ lastError = [r \in ids |-> NoError]
  /\ requests = [r \in ids |-> <<>>]
  /\ responses = [r \in ids |-> <<>>]

RunIds == {"run1"}

Init == InitRuns(RunIds)

Next ==
  \E r \in Runs :
    \/ \E name \in Filenames, image \in Files : Start(r, name, image)
    \/ ImageToCsvExecute(r)
    \/ \E response \in Responses(ImageToCsvTexts) : ImageToCsvResolve(r, response)
    \/ ValidateCsvExecute(r)
    \/ \E response \in Responses(ValidateCsvTexts) : ValidateCsvResolve(r, response)
    \/ \E clock \in Clocks(r) : CsvToExcalidrawExecute(r, clock)
    \/ ValidateExcalidrawExecute(r)
    \/ \E response \in ValidatorResponses(r) : ValidateExcalidrawResolve(r, response)

\* Runs as the first two steps leave them, text being what the self-review
\* call resolved with: the assembler is the step to execute.
RunsAtAssembler(ids, texts) ==
  \E text \in texts :
    /\ pc = [r \in ids |-> "csvToExcalidraw"]
    /\ status = [r \in ids |-> "running"]
    /\ steps = [r \in ids |-> [s \in {StepChain[i] : i \in 1..Len(StepChain)} |->
                                    IF s \in {"imageToCsv", "validateCsv"} THEN "success" ELSE "none"]]
    /\ started = [r \in ids |-> <<"imageToCsv", "validateCsv">>]
    /\ error = [r \in ids |-> NoError]
    /\ result = [r \in ids |-> NoResult]
    /\ filename = [r \in ids |-> ExcalidrawName(Chars("a.jpg"))]
    /\ file = [r \in ids |-> <<>>]
    /\ csv = [r \in ids |-> text]
    /\ excalidrawJson = [r \in ids |-> JUndef]
    /\ messages = [r \in ids |-> <<>>]
    /\ attempts = [r \in ids |-> 0]
    /\ lastError = [r \in ids |-> NoError]
    /\ requests = [r \in ids |->
                     <<[agent |-> "imageToCsvAgent", messages |-> ImageToCsvMessages(Chars("img"))],
                       [agent |-> "imageToCsvAgent", messages |-> ValidateCsvMessages(Chars("img"), Chars("type,x\ntext,1"))]>>]
    /\ responses = [r \in ids |-> <<Resolved(Chars("type,x\ntext,1")), Resolved(text)>>]

AssemblerInit == RunsAtAssembler(RunIds, AssemblerTexts)

AssemblerNext == \E r \in Runs : \E clock \in Clocks(r) : CsvToExcalidrawExecute(r, clock)

\* The assembler step alone, on every intermediate text above.
AssemblerSpec == AssemblerInit /\ [][AssemblerNext]_vars

\* The row parser: the assembler step on a header line and one data line.
RowParserSpec == RunsAtAssembler(RunIds, RowTexts) /\ [][AssemblerNext]_vars

\* The assembler step run twice on the same intermediate text.
RerunSpec == RunsAtAssembler({"run1", "run2"}, AssemblerTexts) /\ [][AssemblerNext]_vars

\* Two runs from the assembler on, each with its own clock, and so its own
\* candidate document, their steps and the returns of their validator calls
\* interleaved in any order; a validator answers with a malformed text or
\* with the echo of the candidate document, or its call rejects.
ConcurrentNext ==
  \E r \in Runs :
    \/ \E clock \in Clocks(r) : CsvToExcalidrawExecute(r, clock)
    \/ ValidateExcalidrawExecute(r)
    \/ \E response \in {p \in ValidatorResponses(r) : p.ok => p.text \in MalformedTexts \cup CandidateTexts} :
         ValidateExcalidrawResolve(r, response)

ConcurrentSpec ==
  RunsAtAssembler({"run1", "run2"}, {t \in ValidateCsvTexts : Len(CsvRows(t)) = 2}) /\ [][ConcurrentNext]_vars

\* The debugging caller races run.start against a timer: when the timer
\* fires while the run awaits a generative call, the caller's await rejects,
\* the caller logs the error and exits the process. The run is left as it
\* was: no step has thrown and no result was delivered.
TimeoutRace(r) ==
  /\ pc[r] \in {"imageToCsv.generate", "validateCsv.generate", "validateExcalidraw.generate"}
  /\ pc' = [pc EXCEPT ![r] = "timedout"]
  /\ UNCHANGED <<status, steps, started, error, result, filename, file, csv, excalidrawJson,
                 messages, attempts, lastError, requests, responses>>

\* The workflow as the debugging caller runs it, under its timer.
TimeoutSpec == Init /\ [][Next \/ \E r \in Runs : TimeoutRace(r)]_vars

\* An awaited validator call returns, with a text or with an error.
ValidatorReturns ==
  \E r \in Runs : \E response \in ValidatorResponses(r) : ValidateExcalidrawResolve(r, response)

Spec == Init /\ [][Next]_vars

\* Every validator call returns in the end: the awaited promise of
\* validator.generate resolves or rejects.
FairSpec == Spec /\ WF_vars(ValidatorReturns)


(***************************************************************************)
(* The validate-repair loop: its budget, its termination, its outcome      *)
(***************************************************************************)

\* C1: in one run of the validate-repair loop the validator is called at most
\* 3 times, whatever it answers; when its first three answers all fail to
\* parse, the run has failed with the exhausted error after exactly 3 calls
\* (a 4th call is never issued).
C1_AtMostThreeCalls ==
  \A r \in Runs :
    LET replies == ValidatorReplies(r)
    IN /\ ValidatorCalls(r) <= 3
       /\ (/\ Len(replies) >= 3
           /\ \A i \in 1..3 : replies[i].ok /\ ~JSONParse(CleanResponse(replies[i].text)).ok)
            => /\ ValidatorCalls(r) = 3
               /\ status[r] = "failed"
               /\ steps[r]["validateExcalidraw"] = "failed"
               /\ error[r].message = "Failed to validate Excalidraw JSON"

\* Three answers that fail to parse have been received and the run is over.
C1_ExhaustedAfterThree ==
  \E r \in Runs :
    /\ Len(ValidatorReplies(r)) = 3
    /\ \A i \in 1..3 : ValidatorReplies(r)[i].ok /\ ~JSONParse(CleanResponse(ValidatorReplies(r)[i].text)).ok
    /\ ValidatorCalls(r) = 3
    /\ error[r].message = "Failed to validate Excalidraw JSON"

\* C2: when every validator call returns (with a text or with an error), a
\* run that enters the validate-repair loop reaches a terminal outcome,
\* success with a document or a failure: the loop does not go on forever.
C2_LoopTerminates ==
  \A r \in RunIds :
    (pc[r] = "validateExcalidraw.generate") ~> (pc[r] = "done" /\ status[r] \in {"success", "failed"})

\* The loop has ended in success on its last attempt, after two repairs.
C2_EndedAfterRepairs ==
  \E r \in Runs : pc[r] = "done" /\ status[r] = "success" /\ attempts[r] = 3

\* C3: the four stages execute in the order imageToCsv, validateCsv,
\* csvToExcalidraw, validateExcalidraw: the stages executed so far are a
\* prefix of that chain (none skipped, repeated or reordered), and a stage
\* has started only when every stage before it had completed successfully.
C3_StagesInOrder ==
  \A r \in Runs :
    LET chain == <<"imageToCsv", "validateCsv", "csvToExcalidraw", "validateExcalidraw">>
    IN /\ Len(started[r]) <= 4
       /\ started[r] = SubSeq(chain, 1, Len(started[r]))
       /\ \A i \in 2..Len(started[r]) : steps[r][chain[i - 1]] = "success"
       /\ \A i \in 1..4 : i > Len(started[r]) => steps[r][chain[i]] = "none"

\* All four stages have executed and the run has succeeded.
C3_AllFourExecuted ==
  \E r \in Runs : Len(started[r]) = 4 /\ status[r] = "success"

\* C4: when a stage fails the run is over with status failed: it stands at
\* no stage, no call is outstanding, the failed stage is the last that was
\* executed; and from then on no stage executes (none is re-executed) and no
\* further external call is issued.
C4_FailureIsTerminal ==
  /\ [](\A r \in Runs :
          (status[r] = "failed" \/ \E i \in 1..Len(StepChain) : steps[r][StepChain[i]] = "failed")
            => /\ status[r] = "failed"
               /\ pc[r] = "done"
               /\ Len(started[r]) >= 1
               /\ steps[r][started[r][Len(started[r])]] = "failed"
               /\ Len(responses[r]) = Len(requests[r])
               /\ result[r] = NoResult)
  /\ [][\A r \in Runs :
          status[r] = "failed"
            => /\ started'[r] = started[r]
               /\ requests'[r] = requests[r]
               /\ steps'[r] = steps[r]
               /\ status'[r] = "failed"]_vars

\* A run has failed at the assembler, with the two earlier calls issued and
\* none after them.
C4_FailedAtAssembler ==
  \E r \in Runs :
    /\ status[r] = "failed"
    /\ steps[r]["csvToExcalidraw"] = "failed"
    /\ Len(requests[r]) = 2

\* C5: a run ends in success only if a validator answer, after the cleanup
\* of its text, parsed as structured data: the answer is the last one, the
\* returned contents are exactly the value it parsed to, and no validator
\* call follows the first answer that parses.
C5_SuccessMeansParsed ==
  \A r \in Runs :
    LET replies == ValidatorReplies(r)
        n == Len(replies)
    IN /\ status[r] = "success"
            => /\ n >= 1
               /\ replies[n].ok
               /\ JSONParse(CleanResponse(replies[n].text)).ok
               /\ result[r].contents = JSONParse(CleanResponse(replies[n].text)).v
       /\ \A i \in 1..n :
            (replies[i].ok /\ JSONParse(CleanResponse(replies[i].text)).ok)
              => (i = n /\ ValidatorCalls(r) = i /\ status[r] = "success")

\* A run has succeeded on its second validator answer, the first having
\* failed to parse.
C5_SucceededOnSecondAnswer ==
  \E r \in Runs :
    /\ status[r] = "success"
    /\ Len(ValidatorReplies(r)) = 2
    /\ ~JSONParse(CleanResponse(ValidatorReplies(r)[1].text)).ok
    /\ result[r].contents = JObj(<<Prop(<<"a">>, JInt(1))>>)

\* C6: every validator answer whose text parses as well-formed structured
\* data ends the loop in success on that attempt with that document,
\* whatever its string values hold; it never causes another attempt.
C6_WellFormedAnswerSucceeds ==
  \A r \in Runs :
    \A i \in 1..Len(ValidatorReplies(r)) :
      (ValidatorReplies(r)[i].ok /\ JSONParse(ValidatorReplies(r)[i].text).ok)
        => /\ ValidatorCalls(r) = i
           /\ status[r] = "success"
           /\ result[r].contents = JSONParse(ValidatorReplies(r)[i].text).v

\* C7: when the first validator answer is valid structured data wrapped in
\* one pair of outer double quotes with its inner quotes escaped, the loop
\* succeeds on attempt 1 with exactly one validator call.
C7_WrappedAnswerSucceeds ==
  \A r \in Runs :
    (/\ Len(ValidatorReplies(r)) >= 1
     /\ ValidatorReplies(r)[1].ok
     /\ \E d \in WrappedDocs : ValidatorReplies(r)[1].text = WrapQuoted(JSONStringify(d)))
      => /\ ValidatorCalls(r) = 1
         /\ attempts[r] = 1
         /\ status[r] = "success"

(***************************************************************************)
(* The document of a run                                                   *)
(***************************************************************************)

\* The SceneDocument shape: discriminator, schema version, source, an
\* elements sequence, the fixed appState and an empty files mapping.
SceneDocument(doc) ==
  /\ doc.t = "obj"
  /\ Len(doc.v) = 6
  /\ GetKey(doc.v, Chars("type")) = JStr(Chars("excalidraw"))
  /\ GetKey(doc.v, Chars("version")) = JInt(2)
  /\ GetKey(doc.v, Chars("source")) = JStr(Chars("https://excalidraw.com"))
  /\ GetKey(doc.v, Chars("elements")).t = "arr"
  /\ GetKey(doc.v, Chars("appState"))
       = JObj(<<Prop(Chars("gridSize"), JInt(20)),
                Prop(Chars("gridStep"), JInt(5)),
                Prop(Chars("gridModeEnabled"), JBool(FALSE)),
                Prop(Chars("viewBackgroundColor"), JStr(Chars("#ffffff")))>>)
  /\ GetKey(doc.v, Chars("files")) = JObj(<<>>)

\* C8: on every successful run the final document handed to the caller has
\* the SceneDocument shape: discriminator "excalidraw", schema version 2, the
\* fixed source string, an elements sequence, the fixed appState and an empty
\* files mapping.
C8_FinalDocumentIsScene ==
  \A r \in Runs : status[r] = "success" => SceneDocument(result[r].contents)

\* C9 as stated: when the intermediate text has fewer than two lines that
\* are non-empty after trimming, the assembler fails with the
\* insufficient-data error, there is no document, and the validator is never
\* called in the run.
C9_TooFewLinesIsInsufficientData ==
  \A r \in Runs :
    (Len(started[r]) >= 3 /\ Cardinality(LineStarts(responses[r][2].text)) < 2)
      => /\ status[r] = "failed"
         /\ steps[r]["csvToExcalidraw"] = "failed"
         /\ error[r].message = "CSV must have header row and at least one data row"
         /\ excalidrawJson[r] = JUndef
         /\ ValidatorCalls(r) = 0

\* C9, amended: when the intermediate text has fewer than two lines that are
\* non-empty after trimming, the assembler fails, with the missing-data
\* error when the text is empty and with the insufficient-data error
\* otherwise; there is no document, and the validator is never called.
C9_TooFewLinesFails ==
  \A r \in Runs :
    (Len(started[r]) >= 3 /\ Cardinality(LineStarts(responses[r][2].text)) < 2)
      => /\ status[r] = "failed"
         /\ steps[r]["csvToExcalidraw"] = "failed"
         /\ error[r].message = IF responses[r][2].text = <<>>
                               THEN "Missing required CSV data"
                               ELSE "CSV must have header row and at least one data row"
         /\ excalidrawJson[r] = JUndef
         /\ ValidatorCalls(r) = 0
         /\ Len(requests[r]) = 2

\* The assembler has failed on a text of a header line only.
C9_HeaderOnly ==
  \E r \in Runs :
    /\ Len(started[r]) >= 3
    /\ responses[r][2].text = Chars("type,x,y,text")
    /\ steps[r]["csvToExcalidraw"] = "failed"
    /\ error[r].message = "CSV must have header row and at least one data row"

\* C10: for every intermediate text with a header line and at least one data
\* line the assembler returns a document; the document has exactly as many
\* elements as the text has data lines that are non-empty after trimming,
\* and its i-th element is the one built from the i-th such line (with the
\* cells of the header line as the field names).
C10_OneElementPerDataLine ==
  \A r \in Runs :
    LET text == responses[r][2].text
        n == Cardinality(LineStarts(text))
        elements == GetKey(excalidrawJson[r].v, Chars("elements")).v
    IN (Len(started[r]) >= 3 /\ n >= 2)
         => /\ steps[r]["csvToExcalidraw"] = "success"
            /\ Len(elements) = n - 1
            /\ \A i \in 1..(n - 1) :
                 elements[i] = RowToElement(TrimAll(Split(NonBlankLine(text, 1), ",")),
                                            NonBlankLine(text, i + 1),
                                            GetKey(elements[i].v, Chars("updated")).m)

\* The assembler has returned a document of two different elements for a
\* text of four lines, one of them blank.
C10_TwoRowsAndABlankLine ==
  \E r \in Runs :
    /\ steps[r]["csvToExcalidraw"] = "success"
    /\ Len(Split(responses[r][2].text, "\n")) = 4
    /\ Cardinality(LineStarts(responses[r][2].text)) = 3
    /\ Len(GetKey(excalidrawJson[r].v, Chars("elements")).v) = 2
    /\ GetKey(GetKey(excalidrawJson[r].v, Chars("elements")).v[1].v, Chars("id"))
         # GetKey(GetKey(excalidrawJson[r].v, Chars("elements")).v[2].v, Chars("id"))

(***************************************************************************)
(* The row parser                                                          *)
(***************************************************************************)

\* The cells of the n-th non-empty line of the text the assembler of run r
\* was given, trimmed: the header for n = 1, the first data row for n = 2.
RowLine(r, n) == TrimAll(Split(NonBlankLine(responses[r][2].text, n), ","))

\* The assembler of run r has been executed on a text with a header and at
\* least one data row.
RowParsed(r) ==
  Len(started[r]) >= 3 /\ Cardinality(LineStarts(responses[r][2].text)) >= 2

\* The properties of the element of the first data row.
RowElement(r) == GetKey(excalidrawJson[r].v, Chars("elements")).v[1].v

\* C11: the row parser is total: whatever the header and the data row (a row
\* with fewer cells than the header, with more, with malformed cells), the
\* assembler does not fail; it returns one element record, an object, for
\* each data row.
C11_RowParserIsTotal ==
  \A r \in Runs :
    RowParsed(r) =>
      /\ steps[r]["csvToExcalidraw"] = "success"
      /\ error[r] = NoError
      /\ LET elements == GetKey(excalidrawJson[r].v, Chars("elements")).v
         IN /\ Len(elements) = Cardinality(LineStarts(responses[r][2].text)) - 1
            /\ \A i \in 1..Len(elements) :
                 elements[i].t = "obj" /\ \A j \in 1..Len(elements[i].v) : elements[i].v[j].v # Uncaught

\* A row with fewer cells than its header, its one cell malformed, has been
\* parsed into a record.
C11_ShortMalformedRow ==
  \E r \in Runs :
    /\ RowParsed(r)
    /\ RowLine(r, 1) = <<Chars("points"), Chars("groupIds")>>
    /\ RowLine(r, 2) = <<Chars("[1")>>
    /\ Len(RowElement(r)) > 0

C13_NumericIsNumber ==
  \A r \in Runs :
    RowParsed(r) =>
      LET header == RowLine(r, 1)
          values == RowLine(r, 2)
      IN \A i \in 1..Len(header) :
           header[i] \in NumericHeaders
             => /\ GetKey(RowElement(r), header[i]).t = "num"
                /\ (CellAt(values, i - 1) = JUndef \/ ToNumber(CellAt(values, i - 1)) = JNaN)
                     => GetKey(RowElement(r), header[i]) = JInt(0)

\* C13, amended: for every row and every numeric column of the header whose
\* cell is not empty, the record's value for the column is a number, and it
\* is 0 when the cell is unparsable or missing (the row is too short); when
\* the cell is empty the record has no entry for the column.
C13_NumericUnlessEmpty ==
  \A r \in Runs :
    RowParsed(r) =>
      LET header == RowLine(r, 1)
          values == RowLine(r, 2)
      IN \A i \in 1..Len(header) :
           header[i] \in NumericHeaders
             => IF CellAt(values, i - 1) = JStr(<<>>)
                THEN ~HasKey(RowElement(r), header[i])
                ELSE /\ GetKey(RowElement(r), header[i]).t = "num"
                     /\ (CellAt(values, i - 1) = JUndef \/ ToNumber(CellAt(values, i - 1)) = JNaN)
                          => GetKey(RowElement(r), header[i]) = JInt(0)

\* A row too short for its version column and a row with an unparsable seed
\* have been parsed: the record has 0 there.
C13_MissingOrUnparsable ==
  \E r \in Runs :
    /\ RowParsed(r)
    /\ \/ /\ RowLine(r, 1) = <<Chars("id"), Chars("version")>>
          /\ RowLine(r, 2) = <<Chars("1")>>
          /\ GetKey(RowElement(r), Chars("version")) = JInt(0)
       \/ /\ RowLine(r, 1) = <<Chars("seed")>>
          /\ RowLine(r, 2) = <<Chars("[1")>>
          /\ GetKey(RowElement(r), Chars("seed")) = JInt(0)

\* C14: for every column of the header whose cell is empty or which the row
\* is too short to contain, the record has no entry (reading the column
\* from the record gives undefined), unless the column is one of the fields
\* the fixed-field pass or the text-specific pass sets.
C14_EmptyOrMissingIsOmitted ==
  \A r \in Runs :
    RowParsed(r) =>
      LET header == RowLine(r, 1)
          values == RowLine(r, 2)
      IN \A i \in 1..Len(header) :
           (/\ CellAt(values, i - 1) \in {JStr(<<>>), JUndef}
            /\ header[i] \notin {Chars("frameId"), Chars("updated"), Chars("link"), Chars("locked"),
                                 Chars("originalText"), Chars("lineHeight"), Chars("baseline"),
                                 Chars("containerId"), Chars("autoResize")})
             => GetKey(RowElement(r), header[i]) = JUndef

\* C15 as stated: for every record of a row whose header has an isDeleted
\* column, isDeleted is true if and only if the cell is exactly the literal
\* true, and false for every other cell, True and 1 among them.
C15_IsDeletedTrueOrFalse ==
  \A r \in Runs :
    RowParsed(r) =>
      LET header == RowLine(r, 1)
          values == RowLine(r, 2)
      IN \A i \in 1..Len(header) :
           header[i] = Chars("isDeleted")
             => GetKey(RowElement(r), header[i]) = JBool(CellAt(values, i - 1) = JStr(Chars("true")))

\* C15, amended: isDeleted is true if and only if the cell, trimmed, is
\* exactly the literal true; it is false for every other cell that is not
\* empty (True and 1 among them) and for a cell the row is too short for;
\* for an empty cell the record has no isDeleted.
C15_IsDeletedUnlessEmpty ==
  \A r \in Runs :
    RowParsed(r) =>
      LET header == RowLine(r, 1)
          values == RowLine(r, 2)
      IN \A i \in 1..Len(header) :
           header[i] = Chars("isDeleted")
             => IF CellAt(values, i - 1) = JStr(<<>>)
                THEN ~HasKey(RowElement(r), header[i])
                ELSE GetKey(RowElement(r), header[i]) = JBool(CellAt(values, i - 1) = JStr(Chars("true")))

\* A row whose isDeleted cell is True has been parsed: the record is not
\* deleted.
C15_CapitalTrue ==
  \E r \in Runs :
    /\ RowParsed(r)
    /\ RowLine(r, 1) = <<Chars("isDeleted")>>
    /\ RowLine(r, 2) = <<Chars("True")>>
    /\ GetKey(RowElement(r), Chars("isDeleted")) = JBool(FALSE)

\* C16: every record whose type is "text" has the five text-specific fields:
\* originalText equal to the record's text, lineHeight 1.25, baseline 0,
\* containerId null and autoResize true, whatever the row's other cells hold,
\* cells of columns named like these fields included.
C16_TextSpecificFields ==
  \A r \in Runs :
    RowParsed(r) =>
      LET elements == GetKey(excalidrawJson[r].v, Chars("elements")).v
      IN \A i \in 1..Len(elements) :
           GetKey(elements[i].v, Chars("type")) = JStr(Chars("text"))
             => /\ \A k \in {Chars("originalText"), Chars("lineHeight"), Chars("baseline"),
                               Chars("containerId"), Chars("autoResize")} : HasKey(elements[i].v, k)
                /\ GetKey(elements[i].v, Chars("originalText")) = GetKey(elements[i].v, Chars("text"))
                /\ GetKey(elements[i].v, Chars("lineHeight")) = [t |-> "num", m |-> 125, e |-> 2]
                /\ GetKey(elements[i].v, Chars("baseline")) = JInt(0)
                /\ GetKey(elements[i].v, Chars("containerId")) = JNull
                /\ GetKey(elements[i].v, Chars("autoResize")) = JBool(TRUE)

\* A text row with a lineHeight cell of its own has been parsed: the record
\* has the fixed lineHeight, not the cell's.
C16_TextRowWithOwnLineHeight ==
  \E r \in Runs :
    /\ RowParsed(r)
    /\ RowLine(r, 1) = <<Chars("type"), Chars("lineHeight")>>
    /\ RowLine(r, 2) = <<Chars("text"), Chars("1")>>
    /\ GetKey(RowElement(r), Chars("type")) = JStr(Chars("text"))
    /\ GetKey(RowElement(r), Chars("lineHeight")) # JStr(Chars("1"))

\* C17: every record has link null, locked false and an updated timestamp
\* (what Date.now() returned at its row), also when the header has link,
\* locked or updated columns with other values; its frameId is null when the
\* row set none (no frameId column, or an empty or missing cell in it).
C17_FixedFields ==
  \A r \in Runs :
    RowParsed(r) =>
      LET header == RowLine(r, 1)
          elements == GetKey(excalidrawJson[r].v, Chars("elements")).v
      IN \A i \in 1..Len(elements) :
           LET values == RowLine(r, i + 1)
           IN /\ GetKey(elements[i].v, Chars("link")) = JNull
              /\ GetKey(elements[i].v, Chars("locked")) = JBool(FALSE)
              /\ GetKey(elements[i].v, Chars("updated")).t = "num"
              /\ GetKey(elements[i].v, Chars("updated")).m \in 1..MaxClock
              /\ (\A j \in 1..Len(header) :
                    header[j] = Chars("frameId") => CellAt(values, j - 1) \in {JStr(<<>>), JUndef})
                   => GetKey(elements[i].v, Chars("frameId")) = JNull

\* A row with link and locked cells of its own has been parsed.
C17_RowWithOwnLinkAndLocked ==
  \E r \in Runs :
    /\ RowParsed(r)
    /\ RowLine(r, 1) = <<Chars("link"), Chars("locked")>>
    /\ RowLine(r, 2) = <<Chars("1"), Chars("true")>>
    /\ GetKey(RowElement(r), Chars("link")) = JNull

(***************************************************************************)
(* The assembler run again                                                 *)
(***************************************************************************)

\* C18: two runs of the assembler on the same intermediate text end alike:
\* both fail with the same error, or both return a document, and the two
\* documents are equal in envelope, element count, element order and every
\* field of every element but updated.
C18_RerunSameDocument ==
  \A r1, r2 \in Runs :
    (Len(started[r1]) >= 3 /\ Len(started[r2]) >= 3)
      => LET WithoutUpdated(doc) ==
               IF doc.t # "obj" THEN doc
               ELSE JObj([i \in 1..Len(doc.v) |->
                            IF doc.v[i].k # Chars("elements") THEN doc.v[i]
                            ELSE Prop(doc.v[i].k,
                                      JArr([j \in 1..Len(doc.v[i].v.v) |->
                                              JObj(SelectSeq(doc.v[i].v.v[j].v, LAMBDA p : p.k # Chars("updated")))]))])
         IN /\ steps[r1]["csvToExcalidraw"] = steps[r2]["csvToExcalidraw"]
            /\ error[r1] = error[r2]
            /\ WithoutUpdated(excalidrawJson[r1]) = WithoutUpdated(excalidrawJson[r2])

\* Two runs on the same text have returned documents that differ, in the
\* updated timestamp of an element.
C18_TwoRunsTwoClocks ==
  \E r1, r2 \in Runs :
    /\ steps[r1]["csvToExcalidraw"] = "success"
    /\ steps[r2]["csvToExcalidraw"] = "success"
    /\ responses[r1][2].text = responses[r2][2].text
    /\ excalidrawJson[r1] # excalidrawJson[r2]

(***************************************************************************)
(* The conversation of the validate-repair loop                            *)
(***************************************************************************)

\* The messages of the validator calls run r has issued, in order.
ValidatorRequests(r) ==
  LET at == SelectSeq([i \in 1..Len(requests[r]) |-> i], LAMBDA i : requests[r][i].agent = "excalidrawValidatorAgent")
  IN [k \in 1..Len(at) |-> requests[r][at[k]].messages]

\* C19: the request of attempt 1 is one user turn with the instructions and
\* the serialized candidate document; the request of attempt n is that turn
\* followed, for each earlier attempt in order, by an assistant turn with the
\* attempt's raw response text and a user corrective turn: 2n-1 turns, the
\* turns of the request before it unaltered at its head.
C19_RequestsAccumulate ==
  \A r \in Runs :
    LET reqs == ValidatorRequests(r)
        replies == ValidatorReplies(r)
    IN \A n \in 1..Len(reqs) :
         /\ Len(reqs[n]) = 2 * n - 1
         /\ reqs[n][1] = Message("user", <<TextPart(ValidatePrompt), TextPart(JSONStringify(excalidrawJson[r]))>>)
         /\ \A j \in 1..(n - 1) :
              /\ reqs[n][2 * j] = Message("assistant", <<TextPart(replies[j].text)>>)
              /\ reqs[n][2 * j + 1].role = "user"
              /\ Len(reqs[n][2 * j + 1].content) = 1
              /\ SubSeq(reqs[n][2 * j + 1].content[1].text, 1, Len(CorrectivePrompt)) = CorrectivePrompt
         /\ n > 1 => SubSeq(reqs[n], 1, 2 * n - 3) = reqs[n - 1]

\* The request of attempt 3 has been issued, after two different responses.
C19_ThirdRequest ==
  \E r \in Runs :
    /\ Len(ValidatorRequests(r)) = 3
    /\ Len(ValidatorRequests(r)[3]) = 5
    /\ ValidatorReplies(r)[1].text # ValidatorReplies(r)[2].text

\* C20: every response that fails to parse is recorded as the last error;
\* on attempt 1 or 2 it drives the next request, whose last turn is the user
\* corrective turn ending with the text of that error; on attempt 3 it ends
\* the run in failure, with the exhausted error that carries its message.
C20_ParseFailureIsReported ==
  \A r \in Runs :
    LET reqs == ValidatorRequests(r)
        replies == ValidatorReplies(r)
    IN \A n \in 1..Len(replies) :
         (replies[n].ok /\ ~TryParsed[replies[n].text].ok)
           => LET e == SyntaxError(TryParsed[replies[n].text])
              IN /\ n = Len(replies) => lastError[r] = e
                 /\ n < maxAttempts
                      => /\ Len(reqs) > n
                         /\ reqs[n + 1][2 * n + 1] =
                              Message("user", <<TextPart(CorrectivePrompt \o Chars("SyntaxError: ") \o e.detail)>>)
                 /\ n >= maxAttempts
                      => /\ status[r] = "failed"
                         /\ steps[r]["validateExcalidraw"] = "failed"
                         /\ error[r].message = "Failed to validate Excalidraw JSON"
                         /\ SubSeq(error[r].detail, Len(error[r].detail) - Len(e.detail) + 1, Len(error[r].detail)) = e.detail

\* The second request has been issued after a first response that failed to
\* parse, and carries that failure.
C20_SecondRequestCarriesError ==
  \E r \in Runs :
    /\ Len(ValidatorRequests(r)) = 2
    /\ ValidatorReplies(r)[1].text = Chars("oops")
    /\ lastError[r].message = "SyntaxError"
    /\ Len(ValidatorRequests(r)[2]) = 3


(***************************************************************************)
(* How the validate-repair loop fails                                      *)
(***************************************************************************)

\* C21: a run that ends with the exhausted error has received three validator
\* answers, and the error it surfaces carries the parse error of the third
\* answer, whatever the errors of the first two were; the run has failed and
\* returns no document.
C21_ExhaustedCarriesLastError ==
  \A r \in Runs :
    error[r].message = "Failed to validate Excalidraw JSON"
      => LET replies == ValidatorReplies(r)
         IN /\ Len(replies) = 3
            /\ replies[3].ok
            /\ ~TryParsed[replies[3].text].ok
            /\ error[r] = ExhaustedError(SyntaxError(TryParsed[replies[3].text]))
            /\ lastError[r] = SyntaxError(TryParsed[replies[3].text])
            /\ status[r] = "failed"
            /\ result[r] = NoResult

\* The loop is exhausted, and the third answer fails to parse at another
\* position than the first and than the second.
C21_ThirdErrorDiffers ==
  \E r \in Runs :
    /\ error[r].message = "Failed to validate Excalidraw JSON"
    /\ Len(ValidatorReplies(r)) = 3
    /\ \A i \in 1..2 :
         /\ ValidatorReplies(r)[i].ok
         /\ SyntaxError(TryParsed[ValidatorReplies(r)[i].text]) /= SyntaxError(TryParsed[ValidatorReplies(r)[3].text])


\* C22: when a validator call rejects, on whichever attempt, the run fails
\* there and then with the error of the call: the rejected call is the last
\* one the run issues, the error is not recorded as a parse failure and no
\* corrective turn is added to the conversation.
C22_RejectionFailsTheRun ==
  \A r \in Runs :
    LET replies == ValidatorReplies(r)
    IN \A n \in 1..Len(replies) :
         ~replies[n].ok
           => /\ n = Len(replies)
              /\ ValidatorCalls(r) = n
              /\ attempts[r] = n
              /\ pc[r] = "done"
              /\ status[r] = "failed"
              /\ steps[r]["validateExcalidraw"] = "failed"
              /\ error[r] = GenerateError
              /\ lastError[r] /= GenerateError
              /\ Len(messages[r]) = 2 * n - 1

\* The second validator call rejected, after a first answer that did not
\* parse: one attempt of the budget was left.
C22_RejectedOnSecondAttempt ==
  \E r \in Runs :
    /\ Len(ValidatorReplies(r)) = 2
    /\ ValidatorReplies(r)[1].ok
    /\ ~ValidatorReplies(r)[2].ok
    /\ status[r] = "failed"


(***************************************************************************)
(* Runs side by side                                                       *)
(***************************************************************************)

\* C23: with two runs interleaved in any order, each run's attempt counter
\* and conversation follow from its own validator answers alone (one attempt
\* more than its own parse failures, two turns per own repair after the turn
\* with its own candidate document), each run issues at most 3 validator
\* calls, and a step of one run leaves the counter, the conversation, the
\* candidate document and the requests of every other run as they were.
C23_RunsDoNotInterfere ==
  /\ [](\A r \in Runs :
          LET replies == ValidatorReplies(r)
              failures == Cardinality({i \in 1..Len(replies) : replies[i].ok /\ ~TryParsed[replies[i].text].ok})
          IN /\ ValidatorCalls(r) <= 3
             /\ attempts[r] = ValidatorCalls(r)
             /\ ValidatorCalls(r) > 0
                  => /\ attempts[r] = (IF failures < 3 THEN failures + 1 ELSE 3)
                     /\ Len(messages[r]) = 1 + 2 * (IF failures < 2 THEN failures ELSE 2)
                     /\ messages[r][1].content[2].text = JSONStringify(excalidrawJson[r]))
  /\ [][\A q \in Runs :
          (started'[q] = started[q] /\ responses'[q] = responses[q])
            => /\ attempts'[q] = attempts[q]
               /\ messages'[q] = messages[q]
               /\ lastError'[q] = lastError[q]
               /\ excalidrawJson'[q] = excalidrawJson[q]
               /\ requests'[q] = requests[q]]_vars

\* Two runs with different candidate documents are in the loop at the same
\* time: one has had two answers fail to parse and awaits its third call,
\* the other still awaits its first.
C23_OneRunAheadOfTheOther ==
  \E r1, r2 \in Runs :
    /\ excalidrawJson[r1] /= excalidrawJson[r2]
    /\ pc[r1] = Awaiting("validateExcalidraw")
    /\ pc[r2] = Awaiting("validateExcalidraw")
    /\ attempts[r1] = 3
    /\ attempts[r2] = 1
    /\ Len(messages[r1]) = 5
    /\ Len(messages[r2]) = 1


(***************************************************************************)
(* Calls that do not return                                                *)
(***************************************************************************)

\* C24: a run whose generative call did not return before the timeout has
\* ended in failure at the stage of that call, as it does when the call
\* rejects: the run is failed, the stage is marked failed and the run
\* carries the error.
C24_TimeoutFailsTheStage ==
  \A r \in Runs :
    pc[r] = "timedout"
      => /\ status[r] = "failed"
         /\ steps[r][started[r][Len(started[r])]] = "failed"
         /\ error[r] /= NoError


(***************************************************************************)
(* The terminal states of a run                                            *)
(***************************************************************************)

\* C25: a run is never suspended, and neither is any of its stages: its
\* status is pending, running, success or failed, and a run is over exactly
\* when its status is success or failed.
C25_NeverSuspended ==
  \A r \in Runs :
    /\ status[r] \in {"pending", "running", "success", "failed"}
    /\ \A i \in 1..Len(StepChain) : steps[r][StepChain[i]] \in {"none", "running", "success", "failed"}
    /\ pc[r] = "done" <=> status[r] \in {"success", "failed"}

\* A run is over, ended by the rejection of the self-review call.
C25_EndedAtSelfReview ==
  \E r \in Runs :
    /\ pc[r] = "done"
    /\ steps[r]["validateCsv"] = "failed"
    /\ Len(responses[r]) = 2
    /\ ~responses[r][2].ok


(***************************************************************************)
(* The row parser: list fields and blank rows                              *)
(***************************************************************************)

\* C26: in the record of a parsed row neither groupIds nor boundElements is
\* a string, of whatever length: a string the coercion of the cell left
\* there has been replaced by the empty list.
C26_ListFieldsNeverStrings ==
  \A r \in Runs :
    RowParsed(r) =>
      /\ GetKey(RowElement(r), Chars("groupIds")).t /= "str"
      /\ GetKey(RowElement(r), Chars("boundElements")).t /= "str"


\* C27: lines that are empty after trimming are dropped without an error
\* (the step succeeds with one element per remaining data line), and every
\* data line the row parser processes has at least one cell that is not
\* empty after trimming.
C27_ProcessedRowsHaveACell ==
  \A r \in Runs :
    RowParsed(r) =>
      LET lines == Cardinality(LineStarts(responses[r][2].text))
      IN /\ steps[r]["csvToExcalidraw"] = "success"
         /\ Len(GetKey(excalidrawJson[r].v, Chars("elements")).v) = lines - 1
         /\ \A n \in 2..lines : \E j \in 1..Len(RowLine(r, n)) : RowLine(r, n)[j] /= <<>>


(***************************************************************************)
(* The validate-repair loop as a function of the validator's answers       *)
(***************************************************************************)

\* C28: of two runs that entered the loop with the same candidate document,
\* as long as the validator has given them the same answers they have sent
\* the same requests, and the next request is sent by both or by neither;
\* once they were given the same whole sequence of answers they have made
\* the same number of calls and are in the same outcome: the same document
\* returned or the same error.
C28_LoopIsDeterministic ==
  \A r1, r2 \in Runs :
    LET q1 == ValidatorRequests(r1)
        q2 == ValidatorRequests(r2)
        a1 == ValidatorReplies(r1)
        a2 == ValidatorReplies(r2)
    IN (excalidrawJson[r1] = excalidrawJson[r2] /\ Len(q1) > 0 /\ Len(q2) > 0)
         => /\ \A n \in 0..Len(a1) :
                 (n <= Len(a2) /\ SubSeq(a1, 1, n) = SubSeq(a2, 1, n))
                   => /\ Len(q1) > n <=> Len(q2) > n
                      /\ \A k \in 1..(n + 1) : (k <= Len(q1) /\ k <= Len(q2)) => q1[k] = q2[k]
            /\ a1 = a2
                 => /\ Len(q1) = Len(q2)
                    /\ attempts[r1] = attempts[r2]
                    /\ status[r1] = status[r2]
                    /\ result[r1] = result[r2]
                    /\ error[r1] = error[r2]

\* Two runs with the same candidate document were given the same three
\* answers, not all the same text, and both are exhausted.
C28_SameAnswersTwice ==
  \E r1, r2 \in Runs :
    /\ r1 /= r2
    /\ excalidrawJson[r1] = excalidrawJson[r2]
    /\ Len(ValidatorReplies(r1)) = 3
    /\ ValidatorReplies(r1) = ValidatorReplies(r2)
    /\ ValidatorReplies(r1)[1] /= ValidatorReplies(r1)[2]
    /\ error[r1].message = "Failed to validate Excalidraw JSON"
    /\ error[r2].message = "Failed to validate Excalidraw JSON"


(***************************************************************************)
(* What each stage passes to the next                                      *)
(***************************************************************************)

\* C29: the request of stage 2 carries the image the run was started with
\* and, as its assistant turn, the text stage 1 resolved with; the document
\* the assembler returns is the one built from the rows of the text stage 2
\* resolved with (the stage-1 text is not parsed); and the first validator
\* request carries the serialization of exactly that document.
C29_StagesPassTheirOutputsOn ==
  \A r \in Runs :
    /\ (Len(requests[r]) >= 1 /\ file[r] /= <<>>)
         => requests[r][1].messages[1].content[1] = ImagePart(file[r])
    /\ Len(requests[r]) >= 2
         => /\ responses[r][1].ok
            /\ requests[r][2].messages =
                 ValidateCsvMessages(requests[r][1].messages[1].content[1].image, responses[r][1].text)
    /\ steps[r]["csvToExcalidraw"] = "success"
         => LET rows == CsvRows(responses[r][2].text)
                elements == GetKey(excalidrawJson[r].v, Chars("elements")).v
            IN /\ responses[r][2].ok
               /\ Len(elements) = Len(rows) - 1
               /\ excalidrawJson[r] =
                    ExcalidrawJson(CsvElements(rows, [i \in 1..Len(elements) |->
                                                      GetKey(elements[i].v, Chars("updated")).m]))
    /\ Len(requests[r]) >= 3
         => /\ steps[r]["csvToExcalidraw"] = "success"
            /\ requests[r][3].agent = "excalidrawValidatorAgent"
            /\ requests[r][3].messages[1].content[2] = TextPart(JSONStringify(excalidrawJson[r]))

\* The first validator request has been issued in a run whose two stages of
\* text extraction resolved with different texts.
C29_ValidatorAskedAfterSelfReview ==
  \E r \in Runs :
    /\ Len(requests[r]) = 3
    /\ responses[r][1].text /= responses[r][2].text
    /\ CsvRows(responses[r][1].text) /= CsvRows(responses[r][2].text)


\* C30: a stage that lacks a required input fails before it issues an
\* external call. A run started without a file name or an image fails at
\* stage 1 with no call issued; when stage 1 resolved with the empty text,
\* stage 2 fails with the first call the only one issued; when stage 2
\* resolved with the empty text, stage 3 fails with no document built,
\* stage 4 is not executed and the validator is never called.
C30_InputsCheckedBeforeCalls ==
  \A r \in Runs :
    /\ (Len(started[r]) >= 1 /\ Len(requests[r]) = 0)
         => /\ steps[r]["imageToCsv"] = "failed"
            /\ error[r] = Err("Missing required image data", <<>>)
            /\ filename[r] = <<>> \/ file[r] = <<>>
    /\ (Len(started[r]) >= 2 /\ responses[r][1] = Resolved(<<>>))
         => /\ steps[r]["validateCsv"] = "failed"
            /\ error[r] = Err("Missing required CSV data", <<>>)
            /\ Len(requests[r]) = 1
            /\ Len(started[r]) = 2
    /\ (Len(started[r]) >= 3 /\ responses[r][2] = Resolved(<<>>))
         => /\ steps[r]["csvToExcalidraw"] = "failed"
            /\ error[r] = Err("Missing required CSV data", <<>>)
            /\ excalidrawJson[r] = JUndef
            /\ Len(requests[r]) = 2
            /\ ValidatorCalls(r) = 0
            /\ Len(started[r]) = 3

\* Stage 1 resolved with the empty text and stage 2 has been executed.
C30_EmptyTextFromStageOne ==
  \E r \in Runs :
    /\ Len(started[r]) = 2
    /\ responses[r][1] = Resolved(<<>>)
    /\ Len(requests[r]) = 1

====
